---- MODULE Spec2Model ----
(***************************************************************************)
(* State-machine model of ehtim.imager.Imager (src/ehtim/imager.py): the   *)
(* pending ("*_next") run configuration, the change detection of           *)
(* check_params, the cached data-term tuples of init_imager_I, the two run *)
(* methods make_image_I / make_image_I_stochastic_optics and the per-field *)
(* run history with its "*_last()" accessors.                              *)
(*                                                                         *)
(* Python dictionaries are objects: self.dat_term_next and the entries of  *)
(* self._dat_term_list are references.  The model keeps a heap `dicts`     *)
(* from object identities to dictionary values, so that binding a new      *)
(* dictionary and changing a dictionary in place are different steps.      *)
(***************************************************************************)
EXTENDS Integers, Sequences, FiniteSets, TLC

(***************************************************************************)
(* Bounds of the model.                                                    *)
(***************************************************************************)
MaxRuns == 2        \* completed runs per behaviour
MaxOps == 2         \* caller operations between runs (configuration changes, accessor calls) per behaviour
MaxIter == 1        \* largest maxit_next offered, so the solver does 0..MaxIter iterations

(***************************************************************************)
(* Module-level constants of the program.                                  *)
(***************************************************************************)
DATATERMS == {"vis", "bs", "amp", "cphase", "camp", "logcamp"}
REGULARIZERS == {"gs", "tv", "tv2", "l1", "patch", "simple", "flux", "cm", "compact", "compact2"}
TTYPES == {"fast", "direct", "nfft"}

\* Python's False and None used as dictionary keys.
PyFalse == "False"
PyNone == "None"

(***************************************************************************)
(* Dictionaries: functions from a finite set of keys to weights.           *)
(***************************************************************************)
EmptyDict == [k \in {} |-> 0]
keys(d) == DOMAIN d
len(d) == Cardinality(DOMAIN d)
\* d[k] = w on a dictionary value
DictSet(d, k, w) == [x \in (DOMAIN d) \cup {k} |-> IF x = k THEN w ELSE d[x]]

(***************************************************************************)
(* Input universes: the values the caller may bind or pass.                *)
(***************************************************************************)
\* Images: pixel scale, dimensions and the pixel vector (row-major).
ImA == [psize |-> 1, xdim |-> 2, ydim |-> 2, imvec |-> <<2, 2, 2, 2>>]
ImB == [psize |-> 1, xdim |-> 2, ydim |-> 2, imvec |-> <<2, 1, 2, 2>>]
ImP == [psize |-> 2, xdim |-> 2, ydim |-> 2, imvec |-> <<2, 2, 2, 2>>]
ImX == [psize |-> 1, xdim |-> 3, ydim |-> 2, imvec |-> <<2, 2, 2, 2, 2, 2>>]
ImY == [psize |-> 1, xdim |-> 2, ydim |-> 3, imvec |-> <<2, 2, 2, 2, 2, 2>>]
Images == {ImA, ImB, ImP, ImX, ImY}

\* Observations: uv-distances in units of 1/UVScale, largest visibility amplitude.
UVScale == 8
ObsA == [id |-> "A", uvdist |-> {1, 6}, maxamp |-> 8]
ObsB == [id |-> "B", uvdist |-> {0, 3, 20}, maxamp |-> 8]
ObsZ == [id |-> "Z", uvdist |-> {0}, maxamp |-> 8]
Observations == {ObsA, ObsB, ObsZ}

DatTermChoices ==
    { EmptyDict,
      ("vis" :> 100),
      ("junk" :> 1),
      (PyFalse :> 1) }
RegTermChoices ==
    { EmptyDict,
      ("simple" :> 1) @@ ("tv" :> 1),
      ("junk" :> 1) }
DatKeyChoices == {"vis", "amp"}
RegKeyChoices == {"simple"}
WeightChoices == {2}
TtypeChoices == {"nfft", "slow"}
PriorChoices == Images
InitChoices == {ImA, ImP}
ClipfloorChoices == {0, 1}
MaxitChoices == 0 .. MaxIter
TransformChoices == {"log", "id"}
FluxChoices == {8, 20}
AlphaPhiChoices == {1, 2}
EpsilonChoices == {<< >>, <<1, 0, 1>>}

\* Sum of a sequence of numbers (np.sum, Image.total_flux).
RECURSIVE SeqSum(_)
SeqSum(s) == IF s = << >> THEN 0 ELSE s[1] + SeqSum(Tail(s))

\* Largest element of a non-empty finite set of numbers (np.max).
SetMax(S) == CHOOSE m \in S : \A x \in S : x <= m
\* The larger of two numbers.
Max2(a, b) == IF a >= b THEN a ELSE b

\* The last element of a list, list[-1].
Last(list) == list[Len(list)]

(***************************************************************************)
(* State.  The names are the attributes of the Imager object.              *)
(***************************************************************************)
VARIABLES
    dicts,                  \* heap: identity of a dictionary object -> its value
    reg_term_next, dat_term_next,   \* references into dicts
    obs_next, init_next, prior_next, flux_next, ttype_next,
    clipfloor_next, maxit_next, transform_next, alpha_phi_next,
    epsilon_list_next,
    _obs_list, _init_list, _prior_list, _out_list,
    _out_list_epsilon, _out_list_scattered,
    _flux_list, _reg_term_list, _dat_term_list, _clipfloor_list,
    _maxit_list, _transform_list, _ttype_list, _alpha_phi_list,
    logstr,
    _change_imgr_params,    \* the flag init_imager_I reads
    change_imgr_params,     \* the attribute line 209 assigns (no leading underscore)
    nruns,
    _embed_mask, _nprior_I, _ninit_I, _data_tuples,
    scattering_model, _ea_ker, _sqrtQ,
    _nit, _show_updates,
    \* Observation of the behaviour, not attributes of the object:
    last,                   \* what the latest operation did
    snap,                   \* per completed run, the values of the term maps it ran with
    prev_completed,         \* the latest run attempt completed
    nops                    \* caller operations so far

pending == <<reg_term_next, dat_term_next, obs_next, init_next, prior_next, flux_next,
             ttype_next, clipfloor_next, maxit_next, transform_next, alpha_phi_next,
             epsilon_list_next>>
history == <<_obs_list, _init_list, _prior_list, _out_list, _flux_list, _reg_term_list,
             _dat_term_list, _clipfloor_list, _maxit_list, _transform_list, _ttype_list,
             _alpha_phi_list, logstr>>
scatt_history == <<_out_list_epsilon, _out_list_scattered>>
flags == <<_change_imgr_params, change_imgr_params>>
cache == <<_embed_mask, _nprior_I, _ninit_I, _data_tuples>>
scatt_cache == <<scattering_model, _ea_ker, _sqrtQ>>
progress == <<_nit, _show_updates>>
vars == <<dicts, pending, history, scatt_history, flags, nruns, cache, scatt_cache,
          progress, last, snap, prev_completed, nops>>

\* An attribute that has not been assigned yet.
NoAttr == -1
\* Python's None for an attribute that holds an object.
NoObject == << >>

(***************************************************************************)
(* The "*_last()" accessors.  Each prints a message and returns (None) when *)
(* its guard holds, and returns list[-1] otherwise; none of them raises.   *)
(***************************************************************************)
\* as NoRunsYet, without the message
NoRunsYet_silent(msg) == [raised |-> FALSE, printed |-> "", ret |-> << >>]
NoRunsYet(msg) == [raised |-> FALSE, printed |-> msg, ret |-> << >>]
Returns(v) == [raised |-> FALSE, printed |-> "", ret |-> <<v>>]

reg_terms_last ==
    IF nruns = 0 THEN NoRunsYet("No imager runs yet!") ELSE Returns(Last(_reg_term_list))
dat_terms_last ==
    IF nruns = 0 THEN NoRunsYet("No imager runs yet!") ELSE Returns(Last(_dat_term_list))
obs_last ==
    IF nruns = 0 THEN NoRunsYet("No imager runs yet!") ELSE Returns(Last(_obs_list))
prior_last ==
    IF nruns = 0 THEN NoRunsYet("No imager runs yet!") ELSE Returns(Last(_prior_list))
out_last ==
    IF nruns = 0 THEN NoRunsYet("No imager runs yet!") ELSE Returns(Last(_out_list))
out_scattered_last ==
    IF nruns = 0 \/ Len(_out_list_scattered) = 0
    THEN NoRunsYet("No stochastic optics imager runs yet!")
    ELSE Returns(Last(_out_list_scattered))
\* as out_epsilon_last, returning the last entry of _out_list
out_epsilon_last_of_out_list ==
    IF nruns = 0 \/ Len(_out_list_epsilon) = 0
    THEN NoRunsYet("No stochastic optics imager runs yet!")
    ELSE Returns(Last(_out_list))
out_epsilon_last ==
    IF nruns = 0 \/ Len(_out_list_epsilon) = 0
    THEN NoRunsYet("No stochastic optics imager runs yet!")
    ELSE Returns(Last(_out_list_epsilon))
init_last ==
    IF nruns = 0 THEN NoRunsYet("No imager runs yet!") ELSE Returns(Last(_init_list))
flux_last ==
    IF nruns = 0 THEN NoRunsYet("No imager runs yet!") ELSE Returns(Last(_flux_list))
clipfloor_last ==
    IF nruns = 0 THEN NoRunsYet("No imager runs yet!") ELSE Returns(Last(_clipfloor_list))
maxit_last ==
    IF nruns = 0 THEN NoRunsYet("No imager runs yet!") ELSE Returns(Last(_maxit_list))
transform_last ==
    IF nruns = 0 THEN NoRunsYet("No imager runs yet!") ELSE Returns(Last(_transform_list))
ttype_last ==
    IF nruns = 0 THEN NoRunsYet("No imager runs yet!") ELSE Returns(Last(_ttype_list))

AccessorNames ==
    {"reg_terms_last", "dat_terms_last", "obs_last", "prior_last", "out_last",
     "out_scattered_last", "out_epsilon_last", "init_last", "flux_last",
     "clipfloor_last", "maxit_last", "transform_last", "ttype_last"}
Accessor(name) ==
    CASE name = "reg_terms_last" -> reg_terms_last
      [] name = "dat_terms_last" -> dat_terms_last
      [] name = "obs_last" -> obs_last
      [] name = "prior_last" -> prior_last
      [] name = "out_last" -> out_last
      [] name = "out_scattered_last" -> out_scattered_last
      [] name = "out_epsilon_last" -> out_epsilon_last
      [] name = "init_last" -> init_last
      [] name = "flux_last" -> flux_last
      [] name = "clipfloor_last" -> clipfloor_last
      [] name = "maxit_last" -> maxit_last
      [] name = "transform_last" -> transform_last
      [] name = "ttype_last" -> ttype_last

(***************************************************************************)
(* check_params: validation (lines 147-178).                               *)
(***************************************************************************)
dt_here == \E term \in keys(dicts[dat_term_next]) : term # PyNone /\ term # PyFalse
dt_type == \A term \in keys(dicts[dat_term_next]) : term \in DATATERMS \/ term = PyFalse
st_here == \E term \in keys(dicts[reg_term_next]) : term # PyNone /\ term # PyFalse
st_type == \A term \in keys(dicts[reg_term_next]) : term \in REGULARIZERS \/ term = PyFalse
\* lines 172-174; the third comparison is of prior_next.ydim with itself
prior_init_mismatch ==
    \/ prior_next.psize # init_next.psize
    \/ prior_next.xdim # init_next.xdim
    \/ prior_next.ydim # prior_next.ydim
ttype_invalid == ttype_next \notin TTYPES

\* as check_params_raises, without the test of ttype_next
check_params_raises_no_ttype ==
    \/ ~dt_here
    \/ ~st_here
    \/ ~dt_type
    \/ ~st_type
    \/ prior_init_mismatch

check_params_raises ==
    \/ ~dt_here
    \/ ~st_here
    \/ ~dt_type
    \/ ~st_type
    \/ prior_init_mismatch
    \/ ttype_invalid

(***************************************************************************)
(* check_params: change detection (lines 180-210), reached when the        *)
(* validation passed.                                                      *)
(***************************************************************************)
\* lines 184-204: one of the five tests that assign self._change_imgr_params
terms_changed ==
    /\ nruns # 0
    /\ \/ ttype_next # ttype_last.ret[1]
       \/ len(dicts[reg_term_next]) # len(dicts[reg_terms_last.ret[1]])
       \/ len(dicts[dat_term_next]) # len(dicts[dat_terms_last.ret[1]])
       \/ \E term \in keys(dicts[dat_term_next]) :
              term \notin keys(dicts[dat_terms_last.ret[1]])
       \/ \E term \in keys(dicts[reg_term_next]) :
              term \notin keys(dicts[reg_terms_last.ret[1]])
\* lines 206-210: the geometry test, which assigns self.change_imgr_params
geometry_changed ==
    /\ nruns # 0
    /\ ~terms_changed
    /\ \/ prior_next.psize # prior_last.ret[1].psize
       \/ prior_next.xdim # prior_last.ret[1].xdim
       \/ prior_next.ydim # prior_last.ret[1].ydim

\* self._change_imgr_params after check_params returned
check_params_flag == IF terms_changed THEN TRUE ELSE _change_imgr_params
\* self.change_imgr_params after check_params returned
check_params_typo_flag == IF geometry_changed THEN TRUE ELSE change_imgr_params

(***************************************************************************)
(* check_limits (lines 212-231).  uv-distances are in units of 1/UVScale,  *)
(* so 1/psize < maxbl/UVScale is UVScale < maxbl * psize.                  *)
(***************************************************************************)
imsize == Max2(prior_next.xdim, prior_next.ydim) * prior_next.psize
maxbl == SetMax(obs_next.uvdist)
nonzero_uvdists == {u \in obs_next.uvdist : u > 0}
\* line 221: np.max of the nonzero uv-distances
minbl == SetMax(nonzero_uvdists)
\* np.max of an empty array raises ValueError
check_limits_raises == nonzero_uvdists = {}
check_limits_warnings ==
    (IF UVScale < maxbl * prior_next.psize THEN {"pixel spacing"} ELSE {})
    \cup (IF UVScale > minbl * imsize THEN {"field of view"} ELSE {})
    \cup (IF 10 * flux_next > 12 * obs_next.maxamp THEN {"flux > 120%"} ELSE {})
    \cup (IF 10 * flux_next < 8 * obs_next.maxamp THEN {"flux < 80%"} ELSE {})

(***************************************************************************)
(* set_embed and init_imager_I (lines 129-140, 338-358).                   *)
(***************************************************************************)
set_embed_mask ==
    [i \in 1 .. Len(prior_next.imvec) |-> prior_next.imvec[i] > clipfloor_next]
\* vec[mask]: the entries of vec the mask selects
RECURSIVE Masked(_, _)
Masked(vec, mask) ==
    IF vec = << >> THEN << >>
    ELSE (IF mask[1] THEN <<vec[1]>> ELSE << >>) \o Masked(Tail(vec), Tail(mask))
\* flux * imvec / sum(imvec[mask]), then [mask]: kept as (flux, masked pixels, sum)
Normalized(im, mask) ==
    [flux |-> flux_next, pixels |-> Masked(im.imvec, mask),
     norm |-> SeqSum(Masked(im.imvec, mask))]
\* line 345: init_next.imvec indexed by a boolean mask of another length raises
\* IndexError
mask_length_mismatch == Len(init_next.imvec) # Len(prior_next.imvec)
\* chisqdata(obs_next, prior_next, _embed_mask, dname, ttype=ttype_next, ...)
chisqdata(dname) ==
    [obs |-> obs_next.id, prior |-> prior_next, mask |-> set_embed_mask,
     dname |-> dname, ttype |-> ttype_next]
\* lines 349-355: the rebuilt dictionary of data tuples
build_data_tuples == [dname \in keys(dicts[dat_term_next]) |-> chisqdata(dname)]

\* np.any(np.invert(self._embed_mask))
mask_excludes(mask) == \E i \in DOMAIN mask : ~mask[i]
\* the data terms make_chisq_dict would look up and not find in tuples
missing_tuples(tuples) == keys(dicts[dat_term_next]) \ DOMAIN tuples

(***************************************************************************)
(* init_imager_scattering (lines 360-379): the kernels are computed from   *)
(* prior_next and the observing frequency of obs_next.                     *)
(***************************************************************************)
Ensemble_Average_Kernel == [prior |-> prior_next, obs |-> obs_next.id]
sqrtQ_Matrix == [prior |-> prior_next]

(***************************************************************************)
(* What an operation did, for the properties below.                        *)
(***************************************************************************)
NoResult == [raised |-> FALSE, printed |-> "", ret |-> << >>]
Did(op) ==
    [op |-> op, step |-> 0, outcome |-> "ok", rebuilt |-> FALSE, fresh |-> FALSE, solver |-> FALSE,
     callbacks |-> 0, iterations |-> 0, warnings |-> {}, screen0 |-> << >>,
     x |-> 0, printed |-> << >>, objgrad |-> << >>, objfunc |-> << >>,
     result |-> NoResult]
RunOps == {"make_image_I", "make_image_I_stochastic_optics"}

(***************************************************************************)
(* Construction (lines 54-126).  The arguments not listed keep their       *)
(* defaults; prior_im=None and flux=None take the init image and its total *)
(* flux.  An object exists only if check_params, check_limits and          *)
(* init_imager_I did not raise.                                            *)
(***************************************************************************)
CtorDataTerms == {("vis" :> 100)}
CtorImages == {ImA}

Init ==
    \E data_term \in CtorDataTerms, init_im \in CtorImages :
        /\ dicts = (1 :> ("simple" :> 1)) @@ (2 :> data_term)
        /\ reg_term_next = 1
        /\ dat_term_next = 2
        /\ obs_next = ObsA
        /\ init_next = init_im
        /\ epsilon_list_next = << >>
        /\ prior_next = init_im
        /\ flux_next = SeqSum(init_im.imvec)
        /\ ttype_next = "fast"
        /\ clipfloor_next = 0
        /\ maxit_next = MaxIter
        /\ transform_next = "log"
        /\ alpha_phi_next = 1
        /\ _obs_list = << >> /\ _init_list = << >> /\ _prior_list = << >>
        /\ _out_list = << >> /\ _out_list_epsilon = << >> /\ _out_list_scattered = << >>
        /\ _flux_list = << >> /\ _reg_term_list = << >> /\ _dat_term_list = << >>
        /\ _clipfloor_list = << >> /\ _maxit_list = << >> /\ _transform_list = << >>
        /\ _ttype_list = << >> /\ _alpha_phi_list = << >>
        /\ logstr = << >>
        /\ nruns = 0
        /\ scattering_model = NoObject /\ _ea_ker = NoObject /\ _sqrtQ = NoObject
        /\ change_imgr_params = FALSE
        /\ _nit = NoAttr
        /\ _show_updates = FALSE
        \* lines 124-126
        /\ ~check_params_raises
        /\ ~check_limits_raises
        /\ _embed_mask = set_embed_mask
        /\ _nprior_I = Normalized(prior_next, set_embed_mask)
        /\ ~mask_length_mismatch
        /\ _ninit_I = Normalized(init_next, set_embed_mask)
        /\ _data_tuples = build_data_tuples
        /\ _change_imgr_params = FALSE
        /\ last = [Did("__init__") EXCEPT !.rebuilt = TRUE,
                                          !.warnings = check_limits_warnings]
        /\ snap = << >>
        /\ prev_completed = FALSE
        /\ nops = 0

(***************************************************************************)
(* _append_image_history (lines 876-891).                                  *)
(***************************************************************************)
\* as _append_image_history, without the append to _alpha_phi_list
_append_image_history_no_alpha(outim, logline) ==
    /\ logstr' = Append(logstr, logline)
    /\ _obs_list' = Append(_obs_list, obs_next)
    /\ _init_list' = Append(_init_list, init_next)
    /\ _prior_list' = Append(_prior_list, prior_next)
    /\ _flux_list' = Append(_flux_list, flux_next)
    /\ _clipfloor_list' = Append(_clipfloor_list, clipfloor_next)
    /\ _maxit_list' = Append(_maxit_list, maxit_next)
    /\ _transform_list' = Append(_transform_list, transform_next)
    /\ _reg_term_list' = Append(_reg_term_list, reg_term_next)
    /\ _ttype_list' = Append(_ttype_list, ttype_next)
    /\ _dat_term_list' = Append(_dat_term_list, dat_term_next)
    /\ _alpha_phi_list' = _alpha_phi_list
    /\ _out_list' = Append(_out_list, outim)

_append_image_history(outim, logline) ==
    /\ logstr' = Append(logstr, logline)
    /\ _obs_list' = Append(_obs_list, obs_next)
    /\ _init_list' = Append(_init_list, init_next)
    /\ _prior_list' = Append(_prior_list, prior_next)
    /\ _flux_list' = Append(_flux_list, flux_next)
    /\ _clipfloor_list' = Append(_clipfloor_list, clipfloor_next)
    /\ _maxit_list' = Append(_maxit_list, maxit_next)
    /\ _transform_list' = Append(_transform_list, transform_next)
    /\ _reg_term_list' = Append(_reg_term_list, reg_term_next)
    /\ _ttype_list' = Append(_ttype_list, ttype_next)
    /\ _dat_term_list' = Append(_dat_term_list, dat_term_next)
    /\ _alpha_phi_list' = Append(_alpha_phi_list, alpha_phi_next)
    /\ _out_list' = Append(_out_list, outim)

(***************************************************************************)
(* The two run methods share their steps.  RunStop is the step at which a  *)
(* run of the given kind ends:                                             *)
(*   1 check_params raised            2 check_limits raised                *)
(*   3 init_imager_I raised           4 init_imager_scattering raised      *)
(*   5 the first progress callback raised KeyError                         *)
(*   6 the solver's first objective evaluation raised KeyError             *)
(*   7 objgrad_scattering raised TypeError                                 *)
(*   8 the embedding check after the solver raised                         *)
(*   9 the run completed                                                   *)
(***************************************************************************)
Stochastic == "make_image_I_stochastic_optics"
Plain == "make_image_I"

\* _data_tuples once init_imager_I returned
tuples_after_init == IF check_params_flag THEN build_data_tuples ELSE _data_tuples

\* lines 610, 619: range(1, (N+1)/2) under "from __future__ import division" is
\* range of a float, which raises TypeError; the solver calls objgrad_scattering
\* when grads is set.
objgrad_scattering_raises(grads) == grads

RunStop(kind, grads, show_updates, scatter_raises) ==
    IF check_params_raises THEN 1
    ELSE IF check_limits_raises THEN 2
    ELSE IF mask_length_mismatch THEN 3
    ELSE IF kind = Stochastic /\ scatter_raises THEN 4
    ELSE IF show_updates /\ missing_tuples(tuples_after_init) # {} THEN 5
    ELSE IF missing_tuples(tuples_after_init) # {} THEN 6
    ELSE IF kind = Stochastic /\ objgrad_scattering_raises(grads) THEN 7
    ELSE IF kind = Stochastic /\ mask_excludes(set_embed_mask) THEN 8
    ELSE 9

Outcome(stop) ==
    CASE stop = 1 -> "check_params"
      [] stop = 2 -> "check_limits"
      [] stop = 3 -> "IndexError"
      [] stop = 4 -> "scattering"
      [] stop = 5 -> "KeyError"
      [] stop = 6 -> "KeyError"
      [] stop = 7 -> "TypeError"
      [] stop = 8 -> "Embedding is not currently implemented!"
      [] stop = 9 -> "ok"

(***************************************************************************)
(* The progress callbacks plotcur (lines 655-679) and plotcur_scattering   *)
(* (lines 681-723), and the solver loop of opt.minimize that calls them.   *)
(* A callback works on the solver's state st: x is the optimization vector *)
(* (known here by the number of solver iterations that produced it), _nit  *)
(* is self._nit, printed is the sequence of "i: %d" values printed and     *)
(* calls counts the invocations that returned.  np.exp(imvec), the slices  *)
(* of minvec and embed(...) bind local names; the only attribute either    *)
(* callback assigns is self._nit (lines 679, 723).                         *)
(***************************************************************************)
\* as plotcur, with "self._nit += 1" inside "if self._show_updates:"
plotcur_nit_when_shown(st, show) ==
    [x |-> st.x,
     _nit |-> IF show THEN st._nit + 1 ELSE st._nit,
     printed |-> IF show THEN Append(st.printed, st._nit) ELSE st.printed,
     calls |-> st.calls + 1]
plotcur(st, show) ==
    [x |-> st.x,
     _nit |-> st._nit + 1,
     printed |-> IF show THEN Append(st.printed, st._nit) ELSE st.printed,
     calls |-> st.calls + 1]
plotcur_scattering(st, show) ==
    [x |-> st.x,
     _nit |-> st._nit + 1,
     printed |-> IF show THEN Append(st.printed, st._nit) ELSE st.printed,
     calls |-> st.calls + 1]
callback(kind, st, show) ==
    IF kind = "make_image_I" THEN plotcur(st, show) ELSE plotcur_scattering(st, show)
\* opt.minimize(..., callback=...): k iterations, the callback after each
RECURSIVE minimize(_, _, _, _)
minimize(kind, st, show, k) ==
    IF k = 0 THEN st
    ELSE minimize(kind, callback(kind, [st EXCEPT !.x = @ + 1], show), show, k - 1)
\* the solver's state after "self._nit = 0" (lines 736, 816)
solver_start == [x |-> 0, _nit |-> 0, printed |-> << >>, calls |-> 0]

\* as initial_screen, with np.zeros(N**2) for np.zeros(N**2-1)
initial_screen_N2 ==
    IF Len(epsilon_list_next) = 0
    THEN [i \in 1 .. (prior_next.xdim * prior_next.xdim) |-> 0]
    ELSE epsilon_list_next
\* lines 810-813: the screen part of the initial vector
initial_screen ==
    IF Len(epsilon_list_next) = 0
    THEN [i \in 1 .. (prior_next.xdim * prior_next.xdim - 1) |-> 0]
    ELSE epsilon_list_next

(***************************************************************************)
(* Vectors of the optimization.  A pixel value is the fraction num/den     *)
(* (self._ninit_I is flux * imvec / sum); tag tells whether the entry is   *)
(* that value ("val"), its logarithm ("ln") or the exponential of a value  *)
(* ("exp"), so that np.exp undoes np.log and nothing else.                 *)
(***************************************************************************)
Frac(n, d) == [num |-> n, den |-> d, tag |-> "val"]
\* the vector self._ninit_I from its parts
ninit_I_vector(n) == [i \in DOMAIN n.pixels |-> Frac(n.flux * n.pixels[i], n.norm)]
\* a vector of screen coefficients
screen_vector(eps) == [i \in DOMAIN eps |-> Frac(eps[i], 1)]
np_log(v) == [i \in DOMAIN v |-> [v[i] EXCEPT !.tag = IF @ = "val" THEN "ln" ELSE "nan"]]
np_exp(v) == [i \in DOMAIN v |-> [v[i] EXCEPT !.tag = IF @ = "ln" THEN "val" ELSE "exp"]]
\* v[:n] and v[n:]
SliceTo(v, n) == SubSeq(v, 1, IF n < Len(v) THEN n ELSE Len(v))
SliceFrom(v, n) == SubSeq(v, n + 1, Len(v))

\* lines 734-735, 805-813: the initial vector of a run
xinit(kind) ==
    LET ninit == ninit_I_vector(Normalized(init_next, set_embed_mask))
        x == IF transform_next = "log" THEN np_log(ninit) ELSE ninit
    IN  IF kind = Stochastic THEN x \o screen_vector(initial_screen) ELSE x

\* sum of f[k] over the keys k in S
RECURSIVE SumOver(_, _)
SumOver(S, f) ==
    IF S = {} THEN 0
    ELSE LET k == CHOOSE k \in S : TRUE IN f[k] + SumOver(S \ {k}, f)

(***************************************************************************)
(* The term functions of ehtim.imaging.imager_utils and the Scatter method *)
(* of the scattering model are called, not defined, by the imager.  Each   *)
(* stands here for a fixed function of its arguments with integer values:  *)
(* different names, images and observations give different values.         *)
(***************************************************************************)
NameCode(name) ==
    CASE name = "vis" -> 1 [] name = "amp" -> 2 [] name = "simple" -> 3
      [] name = "tv" -> 4 [] OTHER -> 5
ObsCode(id) == CASE id = "A" -> 0 [] id = "B" -> 1 [] OTHER -> 2
VecSum(v) == SeqSum([i \in DOMAIN v |-> v[i].num])
chisq(imvec, tup, dname) == NameCode(dname) + ObsCode(tup.obs) + VecSum(imvec)
chisqgrad(imvec, tup, dname) ==
    [i \in DOMAIN imvec |-> NameCode(dname) + ObsCode(tup.obs) + i]
regularizer(imvec, regname) == NameCode(regname) + 2 * VecSum(imvec)
regularizergrad(imvec, regname) == [i \in DOMAIN imvec |-> NameCode(regname) + 2 * i]
Scatter(imvec, EpsilonList) ==
    [i \in DOMAIN imvec |-> [imvec[i] EXCEPT !.num = @ + 1 + VecSum(EpsilonList)]]

\* lines 382-394, 396-408; the regularizers offered here are all evaluated by
\* the else branch of lines 410-436, 438-464
make_chisq_dict(imvec, tuples) ==
    [dname \in keys(dicts[dat_term_next]) |-> chisq(imvec, tuples[dname], dname)]
make_chisqgrad_dict(imvec, tuples) ==
    [dname \in keys(dicts[dat_term_next]) |-> chisqgrad(imvec, tuples[dname], dname)]
make_reg_dict(imvec) ==
    [regname \in keys(dicts[reg_term_next]) |-> regularizer(imvec, regname)]
make_reggrad_dict(imvec) ==
    [regname \in keys(dicts[reg_term_next]) |-> regularizergrad(imvec, regname)]

(***************************************************************************)
(* objgrad_scattering, lines 598-643: the four loops that fill             *)
(* chisq_grad_epsilon = np.zeros(N**2-1), with the bound (N+1)/2 read as   *)
(* floor division.  Each pass writes chisq_grad_epsilon[i_grad] and then   *)
(* increments i_grad, which starts at 0; coefficient_loops lists the       *)
(* passes in order as <<part, s, t, i_grad>>.                              *)
(***************************************************************************)
loop_bound(N) == (N + 1) \div 2
\* range(a, b)
range(a, b) == IF b > a THEN [i \in 1 .. (b - a) |-> a + i - 1] ELSE << >>
\* lines 610-616, 628-634: for t in range(1, bound), s = 0
top_row(part, N, i_grad) ==
    LET ts == range(1, loop_bound(N))
    IN  [j \in 1 .. Len(ts) |-> <<part, 0, ts[j], i_grad + j - 1>>]
\* lines 619-625, 637-643: for s in range(1, bound): for t in range(N)
remainder(part, N, i_grad) ==
    LET ss == range(1, loop_bound(N))
        ts == range(0, N)
    IN  [j \in 1 .. (Len(ss) * Len(ts)) |->
            <<part, ss[((j - 1) \div Len(ts)) + 1], ts[((j - 1) % Len(ts)) + 1],
              i_grad + j - 1>>]
coefficient_loops(N) ==
    LET re_top == top_row("re", N, 0)
        re_rest == remainder("re", N, Len(re_top))
        im_top == top_row("im", N, Len(re_top) + Len(re_rest))
        im_rest == remainder("im", N, Len(re_top) + Len(re_rest) + Len(im_top))
    IN  re_top \o re_rest \o im_top \o im_rest

\* objgrad (lines 521-543): a vector of fractions num/den
objgrad(x, tuples) ==
    LET imvec == IF transform_next = "log" THEN np_exp(x) ELSE x
        dat == dicts[dat_term_next]
        reg == dicts[reg_term_next]
        chi2_term_dict == make_chisqgrad_dict(imvec, tuples)
        reg_term_dict == make_reggrad_dict(imvec)
        datterm == [i \in DOMAIN imvec |->
                       SumOver(keys(dat), [dname \in keys(dat) |->
                                   dat[dname] * (chi2_term_dict[dname][i] - 1)])]
        regterm == [i \in DOMAIN imvec |->
                       SumOver(keys(reg), [regname \in keys(reg) |->
                                   reg[regname] * reg_term_dict[regname][i]])]
        grad == [i \in DOMAIN imvec |-> datterm[i] + regterm[i]]
    IN  IF transform_next = "log"
        THEN [i \in DOMAIN imvec |-> [num |-> grad[i] * imvec[i].num, den |-> imvec[i].den]]
        ELSE [i \in DOMAIN imvec |-> [num |-> grad[i], den |-> 1]]

\* as objfunc_scattering, with the regularizers evaluated on the scattered image
objfunc_scattering_reg_scattered(minvec, tuples) ==
    LET N == prior_next.xdim
        imvec0 == SliceTo(minvec, N * N)
        EpsilonList == SliceFrom(minvec, N * N)
        imvec == IF transform_next = "log" THEN np_exp(imvec0) ELSE imvec0
        scatt_im == Scatter(imvec, EpsilonList)
        dat == dicts[dat_term_next]
        reg == dicts[reg_term_next]
        chi2_term_dict == make_chisq_dict(scatt_im, tuples)
        datterm == SumOver(keys(dat), [dname \in keys(dat) |->
                               dat[dname] * (chi2_term_dict[dname] - 1)])
        reg_term_dict == make_reg_dict(scatt_im)
        regterm == SumOver(keys(reg), [regname \in keys(reg) |->
                               reg[regname] * reg_term_dict[regname]])
        sumsq == SeqSum([i \in DOMAIN EpsilonList |-> EpsilonList[i].num * EpsilonList[i].num])
        den == N * N - 1
    IN  [num |-> den * (datterm + regterm) + alpha_phi_next * (2 * sumsq - den),
         den |-> den]
\* objfunc_scattering (lines 484-519): the value as the fraction num/den with
\* den = N*N - 1, since sum(e*e)/((N*N-1)/2) - 1 = (2*sum(e*e) - (N*N-1))/(N*N-1)
objfunc_scattering(minvec, tuples) ==
    LET N == prior_next.xdim
        imvec0 == SliceTo(minvec, N * N)
        EpsilonList == SliceFrom(minvec, N * N)
        imvec == IF transform_next = "log" THEN np_exp(imvec0) ELSE imvec0
        scatt_im == Scatter(imvec, EpsilonList)
        dat == dicts[dat_term_next]
        reg == dicts[reg_term_next]
        chi2_term_dict == make_chisq_dict(scatt_im, tuples)
        datterm == SumOver(keys(dat), [dname \in keys(dat) |->
                               dat[dname] * (chi2_term_dict[dname] - 1)])
        reg_term_dict == make_reg_dict(imvec)
        regterm == SumOver(keys(reg), [regname \in keys(reg) |->
                               reg[regname] * reg_term_dict[regname]])
        sumsq == SeqSum([i \in DOMAIN EpsilonList |-> EpsilonList[i].num * EpsilonList[i].num])
        den == N * N - 1
    IN  [num |-> den * (datterm + regterm) + alpha_phi_next * (2 * sumsq - den),
         den |-> den]

(***************************************************************************)
(* make_image_I (lines 725-782) and make_image_I_stochastic_optics (lines  *)
(* 784-874).  niter is the number of iterations the solver takes (at most  *)
(* maxit_next); scatter_raises is whether the scattering collaborator      *)
(* rejects a non-square prior.                                             *)
(***************************************************************************)
Run(kind, grads, show_updates, niter, scatter_raises) ==
    /\ niter \in 0 .. maxit_next
    /\ scatter_raises => (kind = Stochastic /\ prior_next.xdim # prior_next.ydim)
    /\ \E stop \in {RunStop(kind, grads, show_updates, scatter_raises)},
          flag \in {check_params_flag} :
       LET \* res.x is the solver's result: known here by the run that produced it
           outim == [run |-> nruns, kind |-> kind]
           outep == [run |-> nruns, screen0 |-> initial_screen]
           outscatt == [scattered |-> outim, screen |-> outep]
           \* the callback before the solver, then the solver with its callbacks
           st1 == callback(kind, solver_start, show_updates)
           stN == minimize(kind, st1, show_updates, niter)
           stEnd == IF stop <= 5 THEN solver_start ELSE IF stop <= 7 THEN st1 ELSE stN
       IN
           /\ stop = 9 => nruns < MaxRuns
           /\ stop < 8 => niter = 0
           \* check_params
           /\ _change_imgr_params' = (IF stop = 1 THEN _change_imgr_params
                                      ELSE IF stop <= 3 THEN flag
                                      ELSE FALSE)
           /\ change_imgr_params' = (IF stop = 1 THEN change_imgr_params
                                     ELSE check_params_typo_flag)
           \* init_imager_I
           /\ _embed_mask' = (IF stop >= 3 THEN set_embed_mask ELSE _embed_mask)
           /\ _nprior_I' = (IF stop >= 3 THEN Normalized(prior_next, set_embed_mask) ELSE _nprior_I)
           /\ _ninit_I' = (IF stop >= 4 THEN Normalized(init_next, set_embed_mask) ELSE _ninit_I)
           /\ _data_tuples' = (IF stop >= 4 THEN tuples_after_init ELSE _data_tuples)
           \* init_imager_scattering
           /\ scattering_model' = (IF kind = Stochastic /\ stop >= 4 /\ scattering_model = NoObject
                                   THEN <<"ScatteringModel()">> ELSE scattering_model)
           /\ _ea_ker' = (IF kind = Stochastic /\ stop >= 5 THEN <<Ensemble_Average_Kernel>>
                          ELSE _ea_ker)
           /\ _sqrtQ' = (IF kind = Stochastic /\ stop >= 5 THEN <<sqrtQ_Matrix>> ELSE _sqrtQ)
           \* the progress callback before the solver, then once per iteration
           /\ _show_updates' = (IF stop >= 5 THEN show_updates ELSE _show_updates)
           /\ _nit' = (IF stop <= 4 THEN _nit ELSE stEnd._nit)
           \* history
           /\ IF stop = 9
              THEN /\ _append_image_history(outim, <<nruns, kind>>)
                   /\ nruns' = nruns + 1
                   /\ snap' = Append(snap, [dat |-> dicts[dat_term_next],
                                            reg |-> dicts[reg_term_next]])
              ELSE UNCHANGED <<history, nruns, snap>>
           /\ IF stop = 9 /\ kind = Stochastic
              THEN /\ _out_list_epsilon' = Append(_out_list_epsilon, outep)
                   /\ _out_list_scattered' = Append(_out_list_scattered, outscatt)
              ELSE UNCHANGED scatt_history
           /\ last' = [Did(kind) EXCEPT
                           !.step = stop,
                           !.outcome = Outcome(stop),
                           !.rebuilt = (stop >= 4 /\ flag),
                           !.fresh = prev_completed,
                           !.solver = (stop >= 6),
                           !.callbacks = stEnd.calls,
                           !.iterations = niter,
                           !.x = stEnd.x,
                           !.printed = stEnd.printed,
                           \* the solver's first evaluations, at xinit
                           !.objgrad = (IF kind = Plain /\ grads /\ stop >= 8
                                        THEN objgrad(xinit(kind), tuples_after_init)
                                        ELSE << >>),
                           !.objfunc = (IF kind = Stochastic /\ stop >= 7
                                        THEN <<objfunc_scattering(xinit(kind), tuples_after_init)>>
                                        ELSE << >>),
                           !.warnings = (IF stop >= 3 THEN check_limits_warnings ELSE {}),
                           !.screen0 = (IF kind = Stochastic /\ stop >= 5
                                        THEN initial_screen ELSE << >>)]
           /\ prev_completed' = (stop = 9)
           /\ UNCHANGED <<dicts, pending, nops>>

make_image_I ==
    \E grads \in BOOLEAN, show_updates \in BOOLEAN, niter \in 0 .. MaxIter :
        Run(Plain, grads, show_updates, niter, FALSE)

make_image_I_stochastic_optics ==
    \E grads \in BOOLEAN, show_updates \in BOOLEAN, niter \in 0 .. MaxIter,
       scatter_raises \in BOOLEAN :
        Run(Stochastic, grads, show_updates, niter, scatter_raises)

(***************************************************************************)
(* The caller's operations between runs: binding a pending attribute,      *)
(* changing a pending term dictionary in place, calling an accessor.       *)
(***************************************************************************)
CallerOp(op) ==
    /\ nops < MaxOps
    /\ nops' = nops + 1
    /\ last' = Did("caller")
    /\ UNCHANGED <<history, scatt_history, flags, nruns, cache, scatt_cache, progress,
                   snap, prev_completed>>

\* the dictionary objects the imager still refers to
Referenced(dat, reg) ==
    {dat, reg} \cup {_dat_term_list[i] : i \in DOMAIN _dat_term_list}
               \cup {_reg_term_list[i] : i \in DOMAIN _reg_term_list}
\* the identity of a newly created dictionary
NewId == CHOOSE i \in 1 .. (Cardinality(DOMAIN dicts) + 1) : i \notin DOMAIN dicts
\* the heap with a new object, without the objects no longer referred to
Heap(h, dat, reg) == [i \in Referenced(dat, reg) |-> h[i]]

\* imager.dat_term_next = d
SetDatTermNext ==
    \E d \in DatTermChoices :
        /\ CallerOp("dat_term_next")
        /\ dat_term_next' = NewId
        /\ dicts' = Heap(dicts @@ (NewId :> d), NewId, reg_term_next)
        /\ UNCHANGED <<reg_term_next, obs_next, init_next, prior_next, flux_next,
                       ttype_next, clipfloor_next, maxit_next, transform_next,
                       alpha_phi_next, epsilon_list_next>>

\* imager.reg_term_next = d
SetRegTermNext ==
    \E d \in RegTermChoices :
        /\ CallerOp("reg_term_next")
        /\ reg_term_next' = NewId
        /\ dicts' = Heap(dicts @@ (NewId :> d), dat_term_next, NewId)
        /\ UNCHANGED <<dat_term_next, obs_next, init_next, prior_next, flux_next,
                       ttype_next, clipfloor_next, maxit_next, transform_next,
                       alpha_phi_next, epsilon_list_next>>

\* imager.dat_term_next[k] = w
SetDatTermWeight ==
    \E k \in DatKeyChoices, w \in WeightChoices :
        /\ CallerOp("dat_term_next[k] = w")
        /\ dicts' = [dicts EXCEPT ![dat_term_next] = DictSet(@, k, w)]
        /\ UNCHANGED pending

\* imager.reg_term_next[k] = w
SetRegTermWeight ==
    \E k \in RegKeyChoices, w \in WeightChoices :
        /\ CallerOp("reg_term_next[k] = w")
        /\ dicts' = [dicts EXCEPT ![reg_term_next] = DictSet(@, k, w)]
        /\ UNCHANGED pending

SetObsNext ==
    \E v \in Observations :
        /\ CallerOp("obs_next")
        /\ obs_next' = v
        /\ UNCHANGED <<dicts, reg_term_next, dat_term_next, init_next, prior_next,
                       flux_next, ttype_next, clipfloor_next, maxit_next, transform_next,
                       alpha_phi_next, epsilon_list_next>>

SetInitNext ==
    \E v \in InitChoices :
        /\ CallerOp("init_next")
        /\ init_next' = v
        /\ UNCHANGED <<dicts, reg_term_next, dat_term_next, obs_next, prior_next,
                       flux_next, ttype_next, clipfloor_next, maxit_next, transform_next,
                       alpha_phi_next, epsilon_list_next>>

SetPriorNext ==
    \E v \in PriorChoices :
        /\ CallerOp("prior_next")
        /\ prior_next' = v
        /\ UNCHANGED <<dicts, reg_term_next, dat_term_next, obs_next, init_next,
                       flux_next, ttype_next, clipfloor_next, maxit_next, transform_next,
                       alpha_phi_next, epsilon_list_next>>

SetFluxNext ==
    \E v \in FluxChoices :
        /\ CallerOp("flux_next")
        /\ flux_next' = v
        /\ UNCHANGED <<dicts, reg_term_next, dat_term_next, obs_next, init_next,
                       prior_next, ttype_next, clipfloor_next, maxit_next, transform_next,
                       alpha_phi_next, epsilon_list_next>>

SetTtypeNext ==
    \E v \in TtypeChoices :
        /\ CallerOp("ttype_next")
        /\ ttype_next' = v
        /\ UNCHANGED <<dicts, reg_term_next, dat_term_next, obs_next, init_next,
                       prior_next, flux_next, clipfloor_next, maxit_next, transform_next,
                       alpha_phi_next, epsilon_list_next>>

SetClipfloorNext ==
    \E v \in ClipfloorChoices :
        /\ CallerOp("clipfloor_next")
        /\ clipfloor_next' = v
        /\ UNCHANGED <<dicts, reg_term_next, dat_term_next, obs_next, init_next,
                       prior_next, flux_next, ttype_next, maxit_next, transform_next,
                       alpha_phi_next, epsilon_list_next>>

SetMaxitNext ==
    \E v \in MaxitChoices :
        /\ CallerOp("maxit_next")
        /\ maxit_next' = v
        /\ UNCHANGED <<dicts, reg_term_next, dat_term_next, obs_next, init_next,
                       prior_next, flux_next, ttype_next, clipfloor_next, transform_next,
                       alpha_phi_next, epsilon_list_next>>

SetTransformNext ==
    \E v \in TransformChoices :
        /\ CallerOp("transform_next")
        /\ transform_next' = v
        /\ UNCHANGED <<dicts, reg_term_next, dat_term_next, obs_next, init_next,
                       prior_next, flux_next, ttype_next, clipfloor_next, maxit_next,
                       alpha_phi_next, epsilon_list_next>>

SetAlphaPhiNext ==
    \E v \in AlphaPhiChoices :
        /\ CallerOp("alpha_phi_next")
        /\ alpha_phi_next' = v
        /\ UNCHANGED <<dicts, reg_term_next, dat_term_next, obs_next, init_next,
                       prior_next, flux_next, ttype_next, clipfloor_next, maxit_next,
                       transform_next, epsilon_list_next>>

SetEpsilonListNext ==
    \E v \in EpsilonChoices :
        /\ CallerOp("epsilon_list_next")
        /\ epsilon_list_next' = v
        /\ UNCHANGED <<dicts, reg_term_next, dat_term_next, obs_next, init_next,
                       prior_next, flux_next, ttype_next, clipfloor_next, maxit_next,
                       transform_next, alpha_phi_next>>

\* a call of one of the "*_last()" accessors
CallLast ==
    \E name \in AccessorNames :
        /\ nops < MaxOps
        /\ nops' = nops + 1
        /\ last' = [Did(name) EXCEPT !.result = Accessor(name)]
        /\ UNCHANGED <<dicts, pending, history, scatt_history, flags, nruns, cache,
                       scatt_cache, progress, snap, prev_completed>>

Next ==
    \/ make_image_I
    \/ make_image_I_stochastic_optics
    \/ SetDatTermNext
    \/ SetRegTermNext
    \/ SetDatTermWeight
    \/ SetRegTermWeight
    \/ SetObsNext
    \/ SetInitNext
    \/ SetPriorNext
    \/ SetFluxNext
    \/ SetTtypeNext
    \/ SetClipfloorNext
    \/ SetMaxitNext
    \/ SetTransformNext
    \/ SetAlphaPhiNext
    \/ SetEpsilonListNext
    \/ CallLast

Spec == Init /\ [][Next]_vars

(***************************************************************************)
(* Properties.                                                             *)
(***************************************************************************)
IsRun == last.op \in RunOps
Completed == IsRun /\ last.outcome = "ok"
Aborted == IsRun /\ last.outcome # "ok"
\* the number of runs that had completed when the latest run started
nruns0 == IF Completed THEN nruns - 1 ELSE nruns
HistoryLists ==
    <<_obs_list, _init_list, _prior_list, _flux_list, _clipfloor_list, _maxit_list,
      _transform_list, _ttype_list, _dat_term_list, _reg_term_list, _alpha_phi_list,
      _out_list>>
Geometry(im) == <<im.psize, im.xdim, im.ydim>>

\* C1: after k completed runs of either kind (snap has one entry per completed
\* run) nruns = k, each of the twelve per-field lists has k entries, and each
\* accessor returns entry k of its list (entry k-1 counting from 0); a run that
\* aborts adds nothing, so this holds after aborted runs too.
C1_MonotonicHistory ==
    LET k == Len(snap) IN
    /\ nruns = k
    /\ \A i \in DOMAIN HistoryLists : Len(HistoryLists[i]) = k
    /\ Len(logstr) = k
    /\ k > 0 =>
        /\ obs_last.ret = <<_obs_list[k]>>
        /\ init_last.ret = <<_init_list[k]>>
        /\ prior_last.ret = <<_prior_list[k]>>
        /\ flux_last.ret = <<_flux_list[k]>>
        /\ clipfloor_last.ret = <<_clipfloor_list[k]>>
        /\ maxit_last.ret = <<_maxit_list[k]>>
        /\ transform_last.ret = <<_transform_list[k]>>
        /\ ttype_last.ret = <<_ttype_list[k]>>
        /\ dat_terms_last.ret = <<_dat_term_list[k]>>
        /\ reg_terms_last.ret = <<_reg_term_list[k]>>
        /\ out_last.ret = <<_out_list[k]>>
C1_Witness ==
    /\ nruns = 2
    /\ Aborted
    /\ _out_list[1].kind # _out_list[2].kind

\* C2: the term maps recorded for each completed run keep the values they had
\* when the run completed, whatever is later done to the pending configuration.
C2_SnapshotFrozen ==
    \A i \in 1 .. nruns :
        /\ dicts[_dat_term_list[i]] = snap[i].dat
        /\ dicts[_reg_term_list[i]] = snap[i].reg

\* C3: a first run (no run completed before it) that gets through
\* init_imager_I leaves the data tuples built from the configuration pending
\* for that run: the pending data-term names, observation, prior, mask, ttype.
C3_FirstRunBuildsFromPending ==
    (IsRun /\ nruns0 = 0 /\ last.step >= 4) => _data_tuples = build_data_tuples

\* C4: a later run whose pending prior differs in pixel scale or a dimension
\* from the prior of the last completed run rebuilds the data tuples before the
\* solver is invoked.
C4_GeometryChangeRebuilds ==
    (/\ IsRun /\ nruns0 >= 1 /\ last.step >= 5
     /\ Geometry(prior_next) # Geometry(_prior_list[nruns0]))
        => last.rebuilt

\* C5: a later run that directly follows a completed run and whose pending
\* configuration has the ttype, the data-term names, the regularizer names and
\* the prior geometry that run had does not rebuild the data tuples.
C5_WeightsOnlyNoRebuild ==
    (/\ IsRun /\ nruns0 >= 1 /\ last.fresh
     /\ ttype_next = _ttype_list[nruns0]
     /\ keys(dicts[dat_term_next]) = keys(snap[nruns0].dat)
     /\ keys(dicts[reg_term_next]) = keys(snap[nruns0].reg)
     /\ Geometry(prior_next) = Geometry(_prior_list[nruns0]))
        => ~last.rebuilt

\* C6: a later run whose pending ttype, data-term names or regularizer names
\* differ from those the last completed run had rebuilds the data tuples, for
\* exactly the pending data-term names, before the first evaluation of the
\* data terms.
C6_TermChangeRebuilds ==
    (/\ IsRun /\ nruns0 >= 1 /\ last.step >= 5
     /\ \/ ttype_next # _ttype_list[nruns0]
        \/ keys(dicts[dat_term_next]) # keys(snap[nruns0].dat)
        \/ keys(dicts[reg_term_next]) # keys(snap[nruns0].reg))
        => (last.rebuilt /\ DOMAIN _data_tuples = keys(dicts[dat_term_next]))

\* C7: a run whose pending prior and init images differ in pixel scale, in
\* x-dimension or in y-dimension ends with the error of check_params.
C7_GeometryMismatchRaises ==
    (IsRun /\ Geometry(prior_next) # Geometry(init_next))
        => last.outcome = "check_params"

\* C8: a run started with no data term, no regularizer, a term name outside
\* DATATERMS / REGULARIZERS or a ttype outside fast, direct, nfft ends with the
\* error of check_params, before any callback or solver call, and leaves nruns
\* and every history list as they were.
SuppliedTerms(d) == keys(d) \ {PyFalse, PyNone}
InvalidConfiguration ==
    \/ SuppliedTerms(dicts[dat_term_next]) = {}
    \/ SuppliedTerms(dicts[reg_term_next]) = {}
    \/ \E term \in SuppliedTerms(dicts[dat_term_next]) : term \notin DATATERMS
    \/ \E term \in SuppliedTerms(dicts[reg_term_next]) : term \notin REGULARIZERS
    \/ ttype_next \notin {"fast", "direct", "nfft"}
C8_InvalidConfigurationRaises ==
    [][(last'.op \in RunOps /\ InvalidConfiguration) =>
          /\ last'.outcome = "check_params"
          /\ ~last'.solver
          /\ last'.callbacks = 0
          /\ nruns' = nruns
          /\ UNCHANGED <<history, scatt_history>>]_vars
C8_Witness ==
    /\ IsRun
    /\ last.outcome = "check_params"
    /\ nruns = 1
    /\ ttype_next \notin TTYPES
    /\ ~prior_init_mismatch

\* C9 as claimed: an accessor called while no run has completed (for the two
\* scattering accessors: while no scattering-mode run has completed) fails,
\* that is raises.
IsCall == last.op \in AccessorNames
NothingToReturn ==
    \/ nruns = 0
    \/ /\ last.op \in {"out_scattered_last", "out_epsilon_last"}
       /\ Len(_out_list_scattered) = 0
C10_EmbeddingFailsFast ==
    (/\ last.op = Stochastic
     /\ mask_excludes(set_embed_mask)
     /\ last.outcome = "Embedding is not currently implemented!")
        => (~last.solver /\ last.callbacks = 0)

\* C11: in every run whose progress callbacks return, the callback ran once
\* before the solver and once after each solver iteration: the run leaves
\* _nit = 1 + iterations whatever _nit was before it, the values printed are
\* 0, 1, .., iterations when updates are shown, and the callbacks left the
\* optimization vector (as the solver's iterations made it), the pending
\* configuration and the term maps alone, and the embedding mask and the cached
\* artifacts as init_imager_I set them for this run.
C11_CallbackProtocol ==
    [][(last'.op \in RunOps /\ last'.step >= 6) =>
          /\ last'.callbacks = 1 + last'.iterations
          /\ _nit' = 1 + last'.iterations
          /\ last'.printed = (IF _show_updates'
                              THEN [i \in 1 .. (1 + last'.iterations) |-> i - 1]
                              ELSE << >>)
          /\ last'.x = last'.iterations
          /\ UNCHANGED <<dicts, pending>>
          /\ _embed_mask' = set_embed_mask
          /\ _nprior_I' = Normalized(prior_next, set_embed_mask)
          /\ _ninit_I' = Normalized(init_next, set_embed_mask)
          /\ _data_tuples' = tuples_after_init
          /\ Len(_out_list') = Len(_out_list) + (IF last'.step = 9 THEN 1 ELSE 0)]_vars
C11_Witness ==
    /\ Completed
    /\ last.op = "make_image_I"
    /\ nruns = 2
    /\ last.iterations = 1
    /\ _nit = 2
    /\ ~_show_updates

\* C12: a run that reaches check_limits with an observation that has a nonzero
\* uv-distance, and whose field of view is smaller than the coarsest nonzero
\* sampled spatial frequency (1/imsize above the smallest nonzero uv-distance),
\* gets the field-of-view warning and goes on past check_limits.
SetMin(S) == CHOOSE m \in S : \A x \in S : m <= x
FieldOfViewTooSmall ==
    /\ nonzero_uvdists # {}
    /\ UVScale > SetMin(nonzero_uvdists) * imsize
C12_FieldOfViewWarning ==
    (IsRun /\ last.step >= 2 /\ FieldOfViewTooSmall)
        => ("field of view" \in last.warnings /\ last.step >= 3)

\* C13: a scattering-mode run that reaches its initial vector starts the screen
\* coefficients at the zero vector of length N^2 - 1 when epsilon_list_next is
\* empty, and at epsilon_list_next otherwise; the screens recovered by earlier
\* scattering runs (_out_list_epsilon) play no part.
C13_ScreenStartsAtZero ==
    (last.op = Stochastic /\ last.step >= 5) =>
        LET N == prior_next.xdim IN
        IF epsilon_list_next = << >>
        THEN /\ Len(last.screen0) = N * N - 1
             /\ \A i \in 1 .. Len(last.screen0) : last.screen0[i] = 0
        ELSE last.screen0 = epsilon_list_next
C13_Witness ==
    /\ Completed
    /\ last.op = Stochastic
    /\ Len(_out_list_epsilon) = 2
    /\ _out_list_epsilon[1].screen0 = <<1, 0, 1>>
    /\ epsilon_list_next = << >>
    /\ last.screen0 = <<0, 0, 0>>

\* C14: the gradient the solver of a plain run first gets from objgrad, at the
\* pixel vector p of the initial image, is at every pixel the sum over the data
\* terms of weight * chisqgrad plus the sum over the regularizers of
\* weight * reggrad, nothing subtracted, under the identity transform, and that
\* sum times the pixel value under the log transform.
FirstPixels == ninit_I_vector(_ninit_I)
WeightedGradSum(i) ==
    LET dat == dicts[dat_term_next]
        reg == dicts[reg_term_next]
    IN  SumOver(keys(dat), [dname \in keys(dat) |->
                    dat[dname] * chisqgrad(FirstPixels, _data_tuples[dname], dname)[i]])
        + SumOver(keys(reg), [regname \in keys(reg) |->
                    reg[regname] * regularizergrad(FirstPixels, regname)[i]])
C14_ObjgradNoOffset ==
    (last.op = Plain /\ last.objgrad # << >>) =>
        /\ Len(last.objgrad) = Len(FirstPixels)
        /\ \A i \in DOMAIN FirstPixels :
               last.objgrad[i] =
                   IF transform_next = "log"
                   THEN [num |-> WeightedGradSum(i) * FirstPixels[i].num,
                         den |-> FirstPixels[i].den]
                   ELSE [num |-> WeightedGradSum(i), den |-> 1]

\* C15: when a scattering-mode run with analytic gradients reaches
\* objgrad_scattering, the four coefficient loops (bound (N+1)/2 as floor
\* division) make N^2 - 1 passes for the side length N of the prior, writing
\* the indices 0 .. N^2 - 2 in order, each once, and none outside.
C15_LoopsCoverScreenGradient ==
    (last.op = Stochastic /\ last.step = 7) =>
        LET N == prior_next.xdim
            passes == coefficient_loops(N)
        IN  /\ Len(passes) = N * N - 1
            /\ \A j \in 1 .. Len(passes) : passes[j][4] = j - 1

\* C16: the value the solver of a scattering-mode run first gets from
\* objfunc_scattering, at the initial image and screen, is the sum D + R + P of
\* D, the data terms weight * (chi2 - 1) on the scattered image, R, the
\* regularizers weight * reg on the unscattered image, and the screen penalty
\* P = alpha_phi * (sum(coeff^2) / ((N^2 - 1) / 2) - 1); for a zero screen
\* the value is D + R - alpha_phi.
C16_ObjfuncScattering ==
    (last.op = Stochastic /\ last.objfunc # << >>) =>
        LET N == prior_next.xdim
            minvec == xinit(Stochastic)
            head == SliceTo(minvec, N * N)
            image == IF transform_next = "log" THEN np_exp(head) ELSE head
            coeff == SliceFrom(minvec, N * N)
            dat == dicts[dat_term_next]
            reg == dicts[reg_term_next]
            D == SumOver(keys(dat), [dname \in keys(dat) |->
                     dat[dname] * (chisq(Scatter(image, coeff), _data_tuples[dname], dname) - 1)])
            R == SumOver(keys(reg), [regname \in keys(reg) |->
                     reg[regname] * regularizer(image, regname)])
            sumsq == SeqSum([i \in DOMAIN coeff |-> coeff[i].num * coeff[i].num])
            value == last.objfunc[1]
        IN  /\ value.den = N * N - 1
            /\ value.num = (N * N - 1) * (D + R) + alpha_phi_next * (2 * sumsq - (N * N - 1))
            /\ (\A i \in DOMAIN coeff : coeff[i].num = 0)
                   => value.num = (N * N - 1) * (D + R - alpha_phi_next)
C16_Witness ==
    /\ Completed
    /\ last.op = Stochastic
    /\ epsilon_list_next = <<1, 0, 1>>
    /\ alpha_phi_next = 2
    /\ last.objfunc # << >>

\* C17: in a run that got as far as a progress callback or the solver
\* evaluating the data terms, the cached data tuples have an entry for every
\* name of the pending data-term map, whatever changes of the pending
\* configuration, completed runs and aborted runs came before.
C17_TuplesCoverPendingNames ==
    (IsRun /\ last.step >= 5) => missing_tuples(_data_tuples) = {}

\* C18: in a run after the first completed one whose solver evaluated the data
\* terms, every cached data tuple of a pending data term was built from the
\* pending observation and from the embedding mask of this run.
C18_TuplesBuiltFromCurrentObsAndMask ==
    (IsRun /\ nruns0 >= 1 /\ last.step >= 7) =>
        \A dname \in keys(dicts[dat_term_next]) \cap DOMAIN _data_tuples :
            /\ _data_tuples[dname].obs = obs_next.id
            /\ _data_tuples[dname].mask = _embed_mask

\* C19: the scattered-image list and the screen list have one entry per
\* completed scattering-mode run; out_scattered_last and out_epsilon_last
\* return the results of the latest completed scattering-mode run, also when
\* plain runs completed after it, and out_last returns the output of the latest
\* completed run of either kind.  (The output of the run that completed when
\* nruns was k carries run = k.)
ScatteringRuns == {i \in 1 .. Len(_out_list) : _out_list[i].kind = Stochastic}
C19_ScatteringListsFollowScatteringRuns ==
    /\ Len(_out_list_scattered) = Cardinality(ScatteringRuns)
    /\ Len(_out_list_epsilon) = Cardinality(ScatteringRuns)
    /\ ScatteringRuns # {} =>
           LET j == SetMax(ScatteringRuns) IN
           /\ out_scattered_last.ret # << >>
           /\ out_scattered_last.ret[1].scattered = _out_list[j]
           /\ out_scattered_last.ret[1].screen.run = j - 1
           /\ out_epsilon_last.ret # << >>
           /\ out_epsilon_last.ret[1].run = j - 1
    /\ nruns > 0 =>
           /\ out_last.ret # << >>
           /\ out_last.ret[1].run = nruns - 1
C19_Witness ==
    /\ nruns = 2
    /\ _out_list[1].kind = Stochastic
    /\ _out_list[2].kind = Plain
    /\ last.op = "out_epsilon_last"
    /\ last.result.ret = <<_out_list_epsilon[1]>>
====
